---- MODULE Spec2Model ----
(***************************************************************************)
(* Model of the two-stage "rateio" (proportional allocation) pipeline:     *)
(*   src/engine.py  RateioEngine (filter, ratios, expansion, two stages)   *)
(*   src/utils.py   date normalisation, connection, truncate, insert       *)
(*   src/main.py    main(): load, prepare, stages, persistence             *)
(*                                                                         *)
(* A DataFrame is a sequence of rows; a row is a function from column      *)
(* names to values.  A datetime value is <<year, month, day>>, NaT is the  *)
(* null datetime and PyNone the Python None.  Floating-point quotients are *)
(* kept exact as <<numerator, denominator>> pairs.                         *)
(***************************************************************************)
EXTENDS Integers, Sequences, FiniteSets, TLC

VARIABLES
    pc,                \* position of the run
    raw_lancamentos,   \* data/raw/lancamentos.json as loaded (PyNone: no such key)
    raw_metricas,      \* data/raw/metricas.json as loaded
    df_lancamentos,    \* RateioEngine.df_lancamentos
    df_metricas,       \* RateioEngine.df_metricas
    allocation_ratios, \* ratio table of the stage that ran last
    stage1_df,         \* result of process_first_stage
    stage2_df,         \* result of process_second_stage
    conn,              \* result of get_connection
    tb_rateio_1,       \* destination table of stage 1
    tb_rateio_2,       \* destination table of stage 2
    parquet_1,         \* data/processed/rateio_etapa1.parquet
    parquet_2,         \* data/processed/rateio_etapa2.parquet
    insert_i,          \* loop index i of insert_data
    f_df,              \* filter study: the table
    f_date_column,     \* filter study: the date column
    f_months,          \* filter study: the month set
    f_criteria,        \* filter study: the criteria mapping
    f_once,            \* filter study: filter(table)
    f_twice,           \* filter study: filter(filter(table))
    f_pc               \* filter study: position

engineVars == <<df_lancamentos, df_metricas, allocation_ratios, stage1_df, stage2_df>>
ioVars == <<raw_lancamentos, raw_metricas, conn, tb_rateio_1, tb_rateio_2,
            parquet_1, parquet_2, insert_i>>
filterVars == <<f_df, f_date_column, f_months, f_criteria, f_once, f_twice, f_pc>>
vars == <<pc, engineVars, ioVars, filterVars>>

----------------------------------------------------------------------------
(* Bounds of the model *)

MaxLanc == 2          \* rows of df_lancamentos handed to the engine
MaxMetricas == 2      \* rows of df_metricas handed to the engine
MaxFileRows == 2      \* rows of each raw JSON file read by main
MaxFilterRows == 2    \* rows of the table in the filter study

----------------------------------------------------------------------------
(* Values *)

PyNone == <<"None">>
NaT == <<"NaT">>
NaN == -1                      \* month of NaT: member of no month list

Date(y, m, d) == <<y, m, d>>

\* Series.dt.month
DtMonth(v) == IF v = NaT THEN NaN ELSE v[2]

\* exact quotient num/den
Rat(num, den) == <<num, den>>
RatEq(a, b) == a[1] * b[2] = b[1] * a[2]

\* Sequences over S of length at most n
SeqUpTo(S, n) == UNION {[1..k -> S] : k \in 0..n}

RECURSIVE SumSeq(_)
SumSeq(s) == IF s = <<>> THEN 0 ELSE Head(s) + SumSeq(Tail(s))

\* Rows in order, each applied to f
MapSeq(s, f(_)) == [i \in 1..Len(s) |-> f(s[i])]

RECURSIVE Flatten(_)
Flatten(ss) == IF ss = <<>> THEN <<>> ELSE Head(ss) \o Flatten(Tail(ss))

\* restriction of row r to the columns cols
Restrict(r, cols) == [c \in cols |-> r[c]]

----------------------------------------------------------------------------
(* Input rows *)

Null == "null"                 \* None in a text column

\* lançamentos handed to the engine: (result center, valor, dt_competencia)
LancamentoDomain ==
    { <<100, 6, Date(2024, 10, 5)>>,
      <<100, 4, Date(2024, 9, 5)>>,
      <<204, 9, Date(2024, 11, 5)>>,
      <<204, 3, NaT>>,
      <<268, 8, Date(2024, 10, 5)>>,
      <<288, 5, Date(2024, 9, 5)>>,
      <<999, 7, Date(2024, 9, 5)>>,
      <<999, 2, Date(2024, 10, 5)>> }

\* métricas handed to the engine:
\* (canal, segmento, métrica, dt_referencia, total)
MetricaDomain ==
    { <<"canalA", "segA", "metrica_2", Date(2024, 10, 1), 3>>,
      <<"canalB", "segB", "metrica_2", Date(2024, 11, 1), 1>>,
      <<"canalA", "segB", "metrica_2", Date(2024, 10, 1), 0>>,
      <<"canalB", "segA", "metrica_2", Date(2024, 10, 1), -1>>,
      <<"canalC", "segA", "metrica_2", Date(2024, 10, 1), 2>>,
      <<"canalA", Null, "metrica_2", Date(2024, 11, 1), 2>>,
      <<"canalA", "segA", "metrica_1", Date(2024, 10, 1), 5>>,
      <<"canalA", "segA", "metrica_2", Date(2024, 9, 1), 4>> }

\* row i of the lançamentos table; id_lancamento is the row's key in the JSON file
LancamentoRow(i, t) ==
    [id_lancamento |-> i, id_centro_resultado |-> t[1], valor |-> t[2],
     dt_competencia |-> t[3]]

MetricaRow(t) ==
    [ds_canal_aquisicao |-> t[1], ds_segmento |-> t[2], ds_metrica |-> t[3],
     dt_referencia |-> t[4], total |-> t[5]]

----------------------------------------------------------------------------
(* RateioEngine *)

\* the .dt accessor raises unless the column holds datetimes
DtAccessorRaises(df, date_column) ==
    \E i \in 1..Len(df) : df[i][date_column] = PyNone

\* variant: the mask is applied one row late (misaligned index)
FilterByPeriodAndCriteriaShifted(df, date_column, months, criteria) ==
    LET mask(r) == /\ DtMonth(r[date_column]) \in months
                   /\ \A column \in DOMAIN criteria : r[column] \in criteria[column]
        kept == {i \in 2..Len(df) : mask(df[i - 1])}
        RECURSIVE pick(_)
        pick(i) == IF i > Len(df) THEN <<>>
                   ELSE (IF i \in kept THEN <<df[i]>> ELSE <<>>) \o pick(i + 1)
    IN  pick(1)

\* __filter_by_period_and_criteria
FilterByPeriodAndCriteria(df, date_column, months, criteria) ==
    LET mask(r) == /\ DtMonth(r[date_column]) \in months
                   /\ \A column \in DOMAIN criteria : r[column] \in criteria[column]
    IN  SelectSeq(df, mask)

\* lexicographic rank of the text values that occur as group keys
StrRank(v) ==
    CASE v = "canalA" -> 1
      [] v = "canalB" -> 2
      [] v = "canalC" -> 3
      [] v = "segA" -> 4
      [] v = "segB" -> 5

KeyLess(a, b, cols) ==
    \E i \in 1..Len(cols) :
        /\ \A j \in 1..(i - 1) : a[cols[j]] = b[cols[j]]
        /\ StrRank(a[cols[i]]) < StrRank(b[cols[i]])

\* groupby yields the groups in ascending key order
RECURSIVE SortKeys(_, _)
SortKeys(S, cols) ==
    IF S = {} THEN <<>>
    ELSE LET m == CHOOSE k \in S : \A o \in S \ {k} : KeyLess(k, o, cols)
         IN  <<m>> \o SortKeys(S \ {m}, cols)

\* df.groupby(group_columns)['total'].sum().reset_index(); rows with a null key
\* belong to no group
GroupTotals(df, group_columns) ==
    LET cols == {group_columns[i] : i \in 1..Len(group_columns)}
        notna(r) == \A c \in cols : r[c] # Null
        rows == SelectSeq(df, notna)
        keys == {Restrict(rows[i], cols) : i \in 1..Len(rows)}
        ofKey(k) == LET same(r) == Restrict(r, cols) = k IN SelectSeq(rows, same)
        colTotal(r) == r["total"]
        ordered == SortKeys(keys, group_columns)
        withTotal(k) == k @@ [total |-> SumSeq(MapSeq(ofKey(k), colTotal))]
    IN  MapSeq(ordered, withTotal)

\* totals['total'].sum()
TotalMetricValue(totals) ==
    LET colTotal(r) == r["total"] IN SumSeq(MapSeq(totals, colTotal))

\* variant: the denominator is the sum of the rows' totals, grouped or not
CalculateAllocationRatiosOverRows(df, group_columns) ==
    LET totals == GroupTotals(df, group_columns)
        total_metric_value == TotalMetricValue(df)
        withRatio(r) ==
            r @@ [allocation_ratio |->
                    IF total_metric_value > 0
                    THEN Rat(r["total"], total_metric_value)
                    ELSE Rat(0, 1)]
    IN  MapSeq(totals, withRatio)

\* variant: a total of zero or less splits the value evenly over the groups
CalculateAllocationRatiosEvenSplit(df, group_columns) ==
    LET totals == GroupTotals(df, group_columns)
        total_metric_value == TotalMetricValue(totals)
        withRatio(r) ==
            r @@ [allocation_ratio |->
                    IF total_metric_value > 0
                    THEN Rat(r["total"], total_metric_value)
                    ELSE Rat(1, Len(totals))]
    IN  MapSeq(totals, withRatio)

\* __calculate_allocation_ratios
CalculateAllocationRatios(df, group_columns) ==
    LET totals == GroupTotals(df, group_columns)
        total_metric_value == TotalMetricValue(totals)
        withRatio(r) ==
            r @@ [allocation_ratio |->
                    IF total_metric_value > 0
                    THEN Rat(r["total"], total_metric_value)
                    ELSE Rat(0, 1)]
    IN  MapSeq(totals, withRatio)

\* variant: the value is multiplied by the group's total, not by its ratio
CreateAllocationRecordsByTotal(lancamentos_df, allocation_df, value_column, ratio_column, stage) ==
    LET record(lancamento, row) ==
            Restrict(row, DOMAIN row \ {"total", ratio_column})
            @@ [valor_rateado |-> Rat(lancamento[value_column] * row["total"], 1),
                etapa_rateio |-> stage]
            @@ lancamento
        perLancamento(lancamento) ==
            [j \in 1..Len(allocation_df) |-> record(lancamento, allocation_df[j])]
    IN  Flatten(MapSeq(lancamentos_df, perLancamento))

\* __create_allocation_records
CreateAllocationRecords(lancamentos_df, allocation_df, value_column, ratio_column, stage) ==
    LET record(lancamento, row) ==
            Restrict(row, DOMAIN row \ {"total", ratio_column})
            @@ [valor_rateado |-> Rat(lancamento[value_column] * row[ratio_column][1],
                                      row[ratio_column][2]),
                etapa_rateio |-> stage]
            @@ lancamento
        perLancamento(lancamento) ==
            [j \in 1..Len(allocation_df) |-> record(lancamento, allocation_df[j])]
    IN  Flatten(MapSeq(lancamentos_df, perLancamento))

Stage1Months == {10, 11}
Stage1Centers == {100, 204}
Stage1Criteria == [ds_metrica |-> {"metrica_2"}, ds_canal_aquisicao |-> {"canalA", "canalB"}]
Stage1GroupColumns == <<"ds_canal_aquisicao", "ds_segmento">>

Stage2Months == {10, 11}
Stage2Centers == {268, 288}
Stage2Criteria == [ds_metrica |-> {"metrica_2"}]
Stage2GroupColumns == <<"ds_segmento">>

\* variant: the non-allocated rows are restricted to the stage's months
NonAllocatedStage1InPeriod(lancamentos) ==
    LET outside(r) == /\ r["id_centro_resultado"] \notin Stage1Centers
                      /\ DtMonth(r["dt_competencia"]) \in Stage1Months
        assign(r) == [valor_rateado |-> Rat(r["valor"], 1),
                      ds_canal_aquisicao |-> Null,
                      ds_segmento |-> Null,
                      etapa_rateio |-> 0] @@ r
    IN  MapSeq(SelectSeq(lancamentos, outside), assign)

\* the non_allocated frame of process_first_stage
NonAllocatedStage1(lancamentos) ==
    LET outside(r) == r["id_centro_resultado"] \notin Stage1Centers
        assign(r) == [valor_rateado |-> Rat(r["valor"], 1),
                      ds_canal_aquisicao |-> Null,
                      ds_segmento |-> Null,
                      etapa_rateio |-> 0] @@ r
    IN  MapSeq(SelectSeq(lancamentos, outside), assign)

\* the ratio table of process_first_stage
Stage1Ratios(metricas) ==
    CalculateAllocationRatios(
        FilterByPeriodAndCriteria(metricas, "dt_referencia", Stage1Months, Stage1Criteria),
        Stage1GroupColumns)

\* the value process_first_stage returns
FirstStageResult(lancamentos, metricas) ==
    LET centers_filtered ==
            FilterByPeriodAndCriteria(lancamentos, "dt_competencia", Stage1Months,
                                      [id_centro_resultado |-> Stage1Centers])
        allocated_records ==
            CreateAllocationRecords(centers_filtered, Stage1Ratios(metricas),
                                    "valor", "allocation_ratio", 1)
    IN  allocated_records \o NonAllocatedStage1(lancamentos)

\* the ratio table of process_second_stage
Stage2Ratios(metricas) ==
    CalculateAllocationRatios(
        FilterByPeriodAndCriteria(metricas, "dt_referencia", Stage2Months, Stage2Criteria),
        Stage2GroupColumns)

\* variant: the stage-2 entries are chosen by month only, whatever their center
SecondStageResultAnyCenter(stage1, metricas) ==
    LET centers_filtered ==
            FilterByPeriodAndCriteria(stage1, "dt_competencia", Stage2Months, <<>>)
        allocated_records ==
            CreateAllocationRecords(centers_filtered, Stage2Ratios(metricas),
                                    "valor", "allocation_ratio", 2)
        isAllocated(r) == r["etapa_rateio"] = 1
        already_allocated == SelectSeq(stage1, isAllocated)
        stillOut(r) == /\ r["etapa_rateio"] = 0
                       /\ r["id_centro_resultado"] \notin Stage2Centers
        non_allocated_stage2 == SelectSeq(stage1, stillOut)
    IN  already_allocated \o allocated_records \o non_allocated_stage2

\* the value process_second_stage returns
SecondStageResult(stage1, metricas) ==
    LET centers_filtered ==
            FilterByPeriodAndCriteria(stage1, "dt_competencia", Stage2Months,
                                      [id_centro_resultado |-> Stage2Centers])
        allocated_records ==
            CreateAllocationRecords(centers_filtered, Stage2Ratios(metricas),
                                    "valor", "allocation_ratio", 2)
        isAllocated(r) == r["etapa_rateio"] = 1
        already_allocated == SelectSeq(stage1, isAllocated)
        stillOut(r) == /\ r["etapa_rateio"] = 0
                       /\ r["id_centro_resultado"] \notin Stage2Centers
        non_allocated_stage2 == SelectSeq(stage1, stillOut)
    IN  already_allocated \o allocated_records \o non_allocated_stage2

\* process_first_stage
ProcessFirstStage ==
    /\ pc = "prepared"
    /\ IF \/ DtAccessorRaises(df_metricas, "dt_referencia")
          \/ DtAccessorRaises(df_lancamentos, "dt_competencia")
       THEN /\ pc' = "failed"
            /\ UNCHANGED <<allocation_ratios, stage1_df>>
       ELSE /\ allocation_ratios' = Stage1Ratios(df_metricas)
            /\ stage1_df' = FirstStageResult(df_lancamentos, df_metricas)
            /\ pc' = "stage1"
    /\ UNCHANGED <<df_lancamentos, df_metricas, stage2_df, ioVars, filterVars>>

\* process_second_stage
ProcessSecondStage ==
    /\ pc = "stage1"
    /\ allocation_ratios' = Stage2Ratios(df_metricas)
    /\ stage2_df' = SecondStageResult(stage1_df, df_metricas)
    /\ pc' = "stage2"
    /\ UNCHANGED <<df_lancamentos, df_metricas, stage1_df, ioVars, filterVars>>

----------------------------------------------------------------------------
(* The engine on prepared tables *)

\* a destination the run has not modified: what earlier runs left is still there
Untouched == [previous |-> TRUE, rows |-> <<>>]

NoIo ==
    /\ raw_lancamentos = <<>>
    /\ raw_metricas = <<>>
    /\ conn = "none"
    /\ tb_rateio_1 = Untouched
    /\ tb_rateio_2 = Untouched
    /\ parquet_1 = Untouched
    /\ parquet_2 = Untouched
    /\ insert_i = 0

NoFilterStudy ==
    /\ f_df = <<>>
    /\ f_date_column = "dt_competencia"
    /\ f_months = {}
    /\ f_criteria = <<>>
    /\ f_once = <<>>
    /\ f_twice = <<>>
    /\ f_pc = "off"

\* RateioEngine.__init__ on tables whose date columns are datetimes
InitEngine ==
    /\ pc = "prepared"
    /\ \E s \in SeqUpTo(LancamentoDomain, MaxLanc) :
          df_lancamentos = [i \in 1..Len(s) |-> LancamentoRow(i, s[i])]
    /\ \E s \in SeqUpTo(MetricaDomain, MaxMetricas) :
          df_metricas = [i \in 1..Len(s) |-> MetricaRow(s[i])]
    /\ allocation_ratios = <<>>
    /\ stage1_df = <<>>
    /\ stage2_df = <<>>
    /\ NoIo
    /\ NoFilterStudy

NextEngine == ProcessFirstStage \/ ProcessSecondStage

SpecEngine == InitEngine /\ [][NextEngine]_vars

----------------------------------------------------------------------------
(* The period/criteria filter on its own *)

FilterMonthSets == {{10, 11}, {9}, {9, 10}, {}}

\* the filter is applied to a table
ApplyFilter ==
    /\ f_pc = "table"
    /\ f_once' = FilterByPeriodAndCriteria(f_df, f_date_column, f_months, f_criteria)
    /\ f_pc' = "once"
    /\ UNCHANGED <<pc, engineVars, ioVars, f_df, f_date_column, f_months, f_criteria, f_twice>>

\* the same filter is applied to its own result
ApplyFilterAgain ==
    /\ f_pc = "once"
    /\ f_twice' = FilterByPeriodAndCriteria(f_once, f_date_column, f_months, f_criteria)
    /\ f_pc' = "twice"
    /\ UNCHANGED <<pc, engineVars, ioVars, f_df, f_date_column, f_months, f_criteria, f_once>>

InitFilter ==
    /\ pc = "off"
    /\ df_lancamentos = <<>>
    /\ df_metricas = <<>>
    /\ allocation_ratios = <<>>
    /\ stage1_df = <<>>
    /\ stage2_df = <<>>
    /\ NoIo
    /\ f_pc = "table"
    /\ f_once = <<>>
    /\ f_twice = <<>>
    /\ f_months \in FilterMonthSets
    /\ \/ /\ \E s \in SeqUpTo(LancamentoDomain, MaxFilterRows) :
                f_df = [i \in 1..Len(s) |-> LancamentoRow(i, s[i])]
          /\ f_date_column = "dt_competencia"
          /\ f_criteria \in {<<>>,
                             [id_centro_resultado |-> Stage1Centers],
                             [id_centro_resultado |-> Stage2Centers]}
       \/ /\ \E s \in SeqUpTo(MetricaDomain, MaxFilterRows) :
                f_df = [i \in 1..Len(s) |-> MetricaRow(s[i])]
          /\ f_date_column = "dt_referencia"
          /\ f_criteria \in {<<>>, Stage1Criteria, Stage2Criteria}

NextFilter == ApplyFilter \/ ApplyFilterAgain

SpecFilter == InitFilter /\ [][NextFilter]_vars

\* C10: applying the period/criteria filter to its own result yields exactly the
\* rows of the first result.
C10_FilterIdempotent ==
    f_pc = "twice" => f_twice = f_once

\* a filter with criteria has kept some rows and removed others, and has run twice
C10_Witness ==
    /\ f_pc = "twice"
    /\ f_criteria # <<>>
    /\ f_once # <<>>
    /\ Len(f_once) < Len(f_df)

----------------------------------------------------------------------------
(* utils.py: date normalisation *)

\* Raw date values of the JSON files: "2024-10-05" is <<"-", 2024, 10, 5>>,
\* "05/11/2024" is <<"/", 5, 11, 2024>>, the empty string is <<"">> and a text
\* that is no date is <<"text">>.
RawDateDomain ==
    { <<"-", 2024, 10, 5>>,
      <<"/", 5, 11, 2024>>,
      <<"/", 2024, 9, 5>>,
      <<"">>,
      <<"text">>,
      <<"-", 2024, 13, 45>> }

\* len(part) == 4 for the parts that occur
FourDigits(n) == n >= 1000 /\ n <= 9999

\* parse_and_standardize_date: the YYYY-MM-DD text <<"-", y, m, d>>, or None
ParseAndStandardizeDate(value) ==
    IF value = <<"">> THEN PyNone
    ELSE IF Len(value) = 4 /\ value[1] = "-" /\ FourDigits(value[2]) THEN value
    ELSE IF Len(value) = 4 /\ value[1] = "/" /\ FourDigits(value[2])
         THEN <<"-", value[2], value[3], value[4]>>
    ELSE IF Len(value) = 4 /\ value[1] = "/" /\ FourDigits(value[4])
         THEN <<"-", value[4], value[3], value[2]>>
    ELSE PyNone      \* arrow.get raises, the exception is logged

\* pd.to_datetime accepts the standardized text
ValidCalendarDate(t) == t[3] \in 1..12 /\ t[4] \in 1..31

\* convert_to_datetime: the datetime column, or None for every row when
\* pd.to_datetime raises on some value
ConvertToDatetime(df, column) ==
    LET std(r) == ParseAndStandardizeDate(r[column])
        raises == \E i \in 1..Len(df) :
                      std(df[i]) # PyNone /\ ~ValidCalendarDate(std(df[i]))
        value(r) == IF raises THEN PyNone
                    ELSE IF std(r) = PyNone THEN NaT
                    ELSE Date(std(r)[2], std(r)[3], std(r)[4])
        assign(r) == [r EXCEPT ![column] = value(r)]
    IN  MapSeq(df, assign)

----------------------------------------------------------------------------
(* main.py: one run *)

\* rows of lancamentos.json: (result center, valor, dt_competencia as written)
RawLancamentoDomain ==
    { <<100, 6, <<"-", 2024, 10, 5>>>>,
      <<204, 3, <<"">>>>,
      <<268, 8, <<"/", 5, 11, 2024>>>>,
      <<288, 5, <<"/", 2024, 9, 5>>>>,
      <<999, 7, <<"text">>>>,
      <<100, 4, <<"-", 2024, 13, 45>>>> }

\* rows of metricas.json
RawMetricaDomain ==
    { <<"canalA", "segA", "metrica_2", <<"-", 2024, 10, 5>>, 3>>,
      <<"canalB", "segB", "metrica_2", <<"/", 5, 11, 2024>>, 1>>,
      <<"canalA", "segA", "metrica_2", <<"">>, 2>>,
      <<"canalC", "segA", "metrica_2", <<"-", 2024, 13, 45>>, 2>> }

BatchSize == 1000

Fail ==
    /\ pc' = "failed"
    /\ UNCHANGED <<engineVars, ioVars, filterVars>>

\* load_json_data: a file that is absent, invalid or empty yields no DataFrame
\* (the empty sequence here); a missing data/raw directory raises
LoadJsonData ==
    /\ pc = "start"
    /\ \/ /\ \E s \in SeqUpTo(RawLancamentoDomain, MaxFileRows) :
                raw_lancamentos' = [i \in 1..Len(s) |-> LancamentoRow(i, s[i])]
          /\ \E s \in SeqUpTo(RawMetricaDomain, MaxFileRows) :
                raw_metricas' = [i \in 1..Len(s) |-> MetricaRow(s[i])]
          /\ pc' = "loaded"
          /\ UNCHANGED <<engineVars, conn, tb_rateio_1, tb_rateio_2,
                         parquet_1, parquet_2, insert_i, filterVars>>
       \/ Fail

\* prepare_dataframes and RateioEngine.__init__: assigning a column of a missing
\* DataFrame raises
PrepareDataframes ==
    /\ pc = "loaded"
    /\ IF raw_lancamentos = <<>> \/ raw_metricas = <<>>
       THEN Fail
       ELSE /\ df_lancamentos' = ConvertToDatetime(raw_lancamentos, "dt_competencia")
            /\ df_metricas' = ConvertToDatetime(raw_metricas, "dt_referencia")
            /\ pc' = "prepared"
            /\ UNCHANGED <<allocation_ratios, stage1_df, stage2_df, ioVars, filterVars>>

\* get_connection: a connection, or None when connecting fails (the error is logged)
GetConnection ==
    /\ pc = "stage2"
    /\ conn' \in {"open", "none"}
    /\ pc' = "connected"
    /\ UNCHANGED <<engineVars, raw_lancamentos, raw_metricas, tb_rateio_1, tb_rateio_2,
                   parquet_1, parquet_2, insert_i, filterVars>>

Truncated == [previous |-> FALSE, rows |-> <<>>]

\* truncate_table(conn, "tb_rateio_1")
TruncateTable1 ==
    /\ pc = "connected"
    /\ \/ /\ conn = "none"                \* None has no cursor
          /\ Fail
       \/ /\ conn = "open"                \* the statement fails
          /\ Fail
       \/ /\ conn = "open"                \* the statement runs
          /\ tb_rateio_1' = Truncated
          /\ pc' \in {"truncated1", "failed"}   \* fetchall returns or raises
          /\ UNCHANGED <<engineVars, raw_lancamentos, raw_metricas, conn, tb_rateio_2,
                         parquet_1, parquet_2, insert_i, filterVars>>

\* truncate_table(conn, "tb_rateio_2")
TruncateTable2 ==
    /\ pc = "truncated1"
    /\ \/ Fail
       \/ /\ tb_rateio_2' = Truncated
          /\ pc' \in {"truncated2", "failed"}
          /\ UNCHANGED <<engineVars, raw_lancamentos, raw_metricas, conn, tb_rateio_1,
                         parquet_1, parquet_2, insert_i, filterVars>>

\* the values list of insert_data: null values become None (a null text is
\* None already, a null datetime is NaT)
InsertValues(df) ==
    LET noneIfNa(r) == [r EXCEPT !["dt_competencia"] = IF @ = NaT THEN PyNone ELSE @]
    IN  MapSeq(df, noneIfNa)

Min(a, b) == IF a < b THEN a ELSE b

\* one turn of the batch loop of insert_data: executemany and commit, or an error
InsertBatch(table, df) ==
    LET values == InsertValues(df)
        batch == SubSeq(values, insert_i + 1, Min(insert_i + BatchSize, Len(values)))
    IN  [table EXCEPT !.rows = @ \o batch]

\* insert_data(conn, "tb_rateio_1", stage1_df)
InsertData1 ==
    /\ pc = "truncated2"
    /\ IF insert_i < Len(stage1_df)
       THEN \/ /\ tb_rateio_1' = InsertBatch(tb_rateio_1, stage1_df)
               /\ insert_i' = insert_i + BatchSize
               /\ UNCHANGED <<pc, engineVars, raw_lancamentos, raw_metricas, conn,
                              tb_rateio_2, parquet_1, parquet_2, filterVars>>
            \/ Fail
       ELSE /\ insert_i' = 0
            /\ pc' = "inserted1"
            /\ UNCHANGED <<engineVars, raw_lancamentos, raw_metricas, conn, tb_rateio_1,
                           tb_rateio_2, parquet_1, parquet_2, filterVars>>

\* insert_data(conn, "tb_rateio_2", stage2_df)
InsertData2 ==
    /\ pc = "inserted1"
    /\ IF insert_i < Len(stage2_df)
       THEN \/ /\ tb_rateio_2' = InsertBatch(tb_rateio_2, stage2_df)
               /\ insert_i' = insert_i + BatchSize
               /\ UNCHANGED <<pc, engineVars, raw_lancamentos, raw_metricas, conn,
                              tb_rateio_1, parquet_1, parquet_2, filterVars>>
            \/ Fail
       ELSE /\ insert_i' = 0
            /\ pc' = "inserted2"
            /\ UNCHANGED <<engineVars, raw_lancamentos, raw_metricas, conn, tb_rateio_1,
                           tb_rateio_2, parquet_1, parquet_2, filterVars>>

\* stage1_df.to_parquet("data/processed/rateio_etapa1.parquet")
ToParquet1 ==
    /\ pc = "inserted2"
    /\ \/ /\ parquet_1' = [previous |-> FALSE, rows |-> stage1_df]
          /\ pc' = "parquet1"
          /\ UNCHANGED <<engineVars, raw_lancamentos, raw_metricas, conn, tb_rateio_1,
                         tb_rateio_2, parquet_2, insert_i, filterVars>>
       \/ Fail

\* stage2_df.to_parquet("data/processed/rateio_etapa2.parquet")
ToParquet2 ==
    /\ pc = "parquet1"
    /\ \/ /\ parquet_2' = [previous |-> FALSE, rows |-> stage2_df]
          /\ pc' = "done"
          /\ UNCHANGED <<engineVars, raw_lancamentos, raw_metricas, conn, tb_rateio_1,
                         tb_rateio_2, parquet_1, insert_i, filterVars>>
       \/ Fail

Init ==
    /\ pc = "start"
    /\ df_lancamentos = <<>>
    /\ df_metricas = <<>>
    /\ allocation_ratios = <<>>
    /\ stage1_df = <<>>
    /\ stage2_df = <<>>
    /\ NoIo
    /\ NoFilterStudy

Next ==
    \/ LoadJsonData
    \/ PrepareDataframes
    \/ ProcessFirstStage
    \/ ProcessSecondStage
    \/ GetConnection
    \/ TruncateTable1
    \/ TruncateTable2
    \/ InsertData1
    \/ InsertData2
    \/ ToParquet1
    \/ ToParquet2

Spec == Init /\ [][Next]_vars

HasNaT(df, date_column) == \E i \in 1..Len(df) : df[i][date_column] = NaT

\* C7 (as claimed): when a row handed to the period/criteria filter has a date
\* that is no valid calendar date, the filter fails and process_first_stage
\* returns no result.
C7_InvalidDateFailsStage ==
    pc = "stage1" =>
        /\ ~HasNaT(df_lancamentos, "dt_competencia")
        /\ ~HasNaT(df_metricas, "dt_referencia")

\* C8 (as claimed): a run of main that has failed has modified none of
\* tb_rateio_1, tb_rateio_2, rateio_etapa1.parquet, rateio_etapa2.parquet.
C8_RunAtomicity ==
    pc = "failed" =>
        /\ tb_rateio_1 = Untouched
        /\ tb_rateio_2 = Untouched
        /\ parquet_1 = Untouched
        /\ parquet_2 = Untouched

----------------------------------------------------------------------------
(* Properties of the engine, over SpecEngine *)

RatAdd(a, b) == Rat(a[1] * b[2] + b[1] * a[2], a[2] * b[2])

RECURSIVE RatSum(_)
RatSum(s) == IF s = <<>> THEN Rat(0, 1) ELSE RatAdd(Head(s), RatSum(Tail(s)))

\* the rows of df derived from entry id that carry the marker etapa
RecordsOf(df, id, etapa) ==
    LET hit(r) == r["id_lancamento"] = id /\ r["etapa_rateio"] = etapa
    IN  SelectSeq(df, hit)

ColValorRateado(r) == r["valor_rateado"]
ColRatio(r) == r["allocation_ratio"]

Stage1Returned == pc \in {"stage1", "stage2"}

\* C1 (as claimed): after process_first_stage every input entry is in exactly
\* one category of the stage-1 output: allocated records with etapa_rateio = 1
\* and no record with 0, or a single record with etapa_rateio = 0 and none with 1.
C1_Stage1Partition ==
    Stage1Returned =>
        \A i \in 1..Len(df_lancamentos) :
            LET n1 == Len(RecordsOf(stage1_df, i, 1))
                n0 == Len(RecordsOf(stage1_df, i, 0))
            IN  \/ n1 >= 1 /\ n0 = 0
                \/ n1 = 0 /\ n0 = 1

\* every entry a stage allocated (it has records with the stage's marker) has one
\* record per group, and their valor_rateado sum to the entry's valor
Conserved(df, stage) ==
    \A i \in 1..Len(df_lancamentos) :
        LET recs == RecordsOf(df, i, stage)
        IN  recs # <<>> =>
               /\ Len(recs) = Len(allocation_ratios)
               /\ RatEq(RatSum(MapSeq(recs, ColValorRateado)),
                        Rat(df_lancamentos[i]["valor"], 1))

\* C2 (as claimed): with a non-zero grand total of weights, the allocated values
\* of an entry sum to its valor, in stage 1 and in stage 2.
C2_ConservationNonZeroTotal ==
    TotalMetricValue(allocation_ratios) # 0 =>
        /\ pc = "stage1" => Conserved(stage1_df, 1)
        /\ pc = "stage2" => Conserved(stage2_df, 2)

\* C2 (amended): with a grand total of weights greater than zero, the allocated
\* values of an entry sum to its valor, in stage 1 and in stage 2.
C2_ConservationPositiveTotal ==
    TotalMetricValue(allocation_ratios) > 0 =>
        /\ pc = "stage1" => Conserved(stage1_df, 1)
        /\ pc = "stage2" => Conserved(stage2_df, 2)

\* an entry split over two groups with a positive grand total, in stage 2
C2_Witness ==
    /\ pc = "stage2"
    /\ TotalMetricValue(allocation_ratios) > 0
    /\ Len(allocation_ratios) >= 2
    /\ \E i \in 1..Len(df_lancamentos) : Len(RecordsOf(stage2_df, i, 2)) >= 2

\* the entries of df whose center is in centers and whose month is in months
Eligible(centers, months) ==
    {i \in 1..Len(df_lancamentos) :
        /\ df_lancamentos[i]["id_centro_resultado"] \in centers
        /\ DtMonth(df_lancamentos[i]["dt_competencia"]) \in months}

\* entry i has exactly one record in df, not allocated and with its valor
RetainedNonAllocated(df, i) ==
    /\ Len(RecordsOf(df, i, 0)) = 1
    /\ RecordsOf(df, i, 0)[1]["valor_rateado"] = Rat(df_lancamentos[i]["valor"], 1)

\* C3 (as claimed): when the filtered metric set of a stage is empty, every entry
\* eligible for that stage is in its output as a non-allocated record with its
\* original value and etapa_rateio = 0.
C3_EmptyRatioFallback ==
    /\ ( /\ pc = "stage1"
         /\ FilterByPeriodAndCriteria(df_metricas, "dt_referencia", {10, 11},
                [ds_metrica |-> {"metrica_2"},
                 ds_canal_aquisicao |-> {"canalA", "canalB"}]) = <<>> )
       => \A i \in Eligible({100, 204}, {10, 11}) : RetainedNonAllocated(stage1_df, i)
    /\ ( /\ pc = "stage2"
         /\ FilterByPeriodAndCriteria(df_metricas, "dt_referencia", {10, 11},
                [ds_metrica |-> {"metrica_2"}]) = <<>> )
       => \A i \in Eligible({268, 288}, {10, 11}) : RetainedNonAllocated(stage2_df, i)

\* the three stage-2 categories of a stage-1 row r
AlreadyAllocated(r) ==
    r["etapa_rateio"] = 1 /\ \E j \in 1..Len(stage2_df) : stage2_df[j] = r
NewlyAllocated(r) ==
    \E j \in 1..Len(stage2_df) :
        /\ stage2_df[j]["etapa_rateio"] = 2
        /\ stage2_df[j]["id_lancamento"] = r["id_lancamento"]
StillNonAllocated(r) ==
    r["etapa_rateio"] = 0 /\ \E j \in 1..Len(stage2_df) : stage2_df[j] = r

\* C4 (as claimed): after process_second_stage every stage-1 row is in exactly one
\* of the three stage-2 categories.
C4_Stage2Partition ==
    pc = "stage2" =>
        \A k \in 1..Len(stage1_df) :
            LET r == stage1_df[k]
                a == AlreadyAllocated(r)
                b == NewlyAllocated(r)
                c == StillNonAllocated(r)
            IN  \/ a /\ ~b /\ ~c
                \/ ~a /\ b /\ ~c
                \/ ~a /\ ~b /\ c

\* C5: every stage-1 record with etapa_rateio = 1 is in the stage-2 output exactly
\* once, with the same valor_rateado, group keys and marker, and its entry has no
\* stage-2 allocation record.
C5_Stage2PassThrough ==
    pc = "stage2" =>
        \A k \in 1..Len(stage1_df) :
            LET r == stage1_df[k]
                same == {j \in 1..Len(stage2_df) :
                            /\ stage2_df[j]["id_lancamento"] = r["id_lancamento"]
                            /\ stage2_df[j]["ds_canal_aquisicao"] = r["ds_canal_aquisicao"]
                            /\ stage2_df[j]["ds_segmento"] = r["ds_segmento"]}
            IN  r["etapa_rateio"] = 1 =>
                   /\ Cardinality(same) = 1
                   /\ \A j \in same :
                         /\ stage2_df[j]["valor_rateado"] = r["valor_rateado"]
                         /\ stage2_df[j]["etapa_rateio"] = 1
                   /\ RecordsOf(stage2_df, r["id_lancamento"], 2) = <<>>

\* stage 2 has run on stage-1 allocations and has made allocations of its own
C5_Witness ==
    /\ pc = "stage2"
    /\ \E k \in 1..Len(stage1_df) : stage1_df[k]["etapa_rateio"] = 1
    /\ \E j \in 1..Len(stage2_df) : stage2_df[j]["etapa_rateio"] = 2

\* every ratio is weight / grand total and the ratios sum to 1
Normalized(ratios) ==
    /\ \A k \in 1..Len(ratios) :
          ratios[k]["allocation_ratio"] = Rat(ratios[k]["total"], TotalMetricValue(ratios))
    /\ RatEq(RatSum(MapSeq(ratios, ColRatio)), Rat(1, 1))

\* C6 (as claimed): when the group weights are not all zero, the ratios of the
\* ratio table sum to 1.
C6_NormalizationNotAllZero ==
    ( /\ Stage1Returned
      /\ \E k \in 1..Len(allocation_ratios) : allocation_ratios[k]["total"] # 0 )
    => Normalized(allocation_ratios)

\* C6 (amended): when the grand total of the group weights is greater than zero,
\* the ratios of the ratio table sum to 1.
C6_NormalizationPositiveTotal ==
    ( /\ Stage1Returned
      /\ TotalMetricValue(allocation_ratios) > 0 )
    => Normalized(allocation_ratios)

\* a ratio table of two groups with different non-zero weights
C6_Witness ==
    /\ pc = "stage1"
    /\ Len(allocation_ratios) = 2
    /\ allocation_ratios[1]["total"] > 0
    /\ allocation_ratios[2]["total"] > 0
    /\ allocation_ratios[1]["total"] # allocation_ratios[2]["total"]

\* C9: every entry whose center is not 100 or 204 has exactly one record in the
\* stage-1 output, with valor_rateado = valor, null channel and segment and
\* etapa_rateio = 0, whatever its month.
C9_Stage1NonAllocated ==
    Stage1Returned =>
        \A i \in 1..Len(df_lancamentos) :
            df_lancamentos[i]["id_centro_resultado"] \notin {100, 204} =>
                LET recs == {k \in 1..Len(stage1_df) : stage1_df[k]["id_lancamento"] = i}
                IN  /\ Cardinality(recs) = 1
                    /\ \A k \in recs :
                          /\ stage1_df[k]["valor_rateado"] = Rat(df_lancamentos[i]["valor"], 1)
                          /\ stage1_df[k]["ds_canal_aquisicao"] = Null
                          /\ stage1_df[k]["ds_segmento"] = Null
                          /\ stage1_df[k]["etapa_rateio"] = 0

\* stage 1 has run on an entry of another center outside the months 10 and 11,
\* next to an entry it allocated
C9_Witness ==
    /\ pc = "stage1"
    /\ \E i \in 1..Len(df_lancamentos) :
          /\ df_lancamentos[i]["id_centro_resultado"] \notin {100, 204}
          /\ DtMonth(df_lancamentos[i]["dt_competencia"]) \notin {10, 11}
    /\ \E k \in 1..Len(stage1_df) : stage1_df[k]["etapa_rateio"] = 1

\* every eligible entry of centers/months has, in df, one record per group of the
\* ratio table, each with the stage's marker, the group's keys and valor_rateado 0,
\* and no non-allocated record
ExpandedToZero(df, stage, centers, months, group_columns) ==
    \A i \in Eligible(centers, months) :
        LET recs == RecordsOf(df, i, stage)
        IN  /\ Len(recs) = Len(allocation_ratios)
            /\ \A j \in 1..Len(recs) :
                  /\ recs[j]["valor_rateado"][1] = 0
                  /\ recs[j]["valor_rateado"][2] # 0
                  /\ \A n \in 1..Len(group_columns) :
                        recs[j][group_columns[n]] = allocation_ratios[j][group_columns[n]]
            /\ RecordsOf(df, i, 0) = <<>>

AllRatiosZero ==
    \A k \in 1..Len(allocation_ratios) :
        /\ allocation_ratios[k]["allocation_ratio"][1] = 0
        /\ allocation_ratios[k]["allocation_ratio"][2] # 0

\* C11: when the filtered metric set of a stage is not empty and the grand total of
\* its group weights is 0, every ratio is 0 and each eligible entry has one record
\* per group with the stage's marker and valor_rateado = 0, and no record with
\* etapa_rateio = 0.
C11_ZeroTotalDegeneracy ==
    /\ ( /\ pc = "stage1"
         /\ FilterByPeriodAndCriteria(df_metricas, "dt_referencia", {10, 11},
                [ds_metrica |-> {"metrica_2"},
                 ds_canal_aquisicao |-> {"canalA", "canalB"}]) # <<>>
         /\ TotalMetricValue(allocation_ratios) = 0 )
       => /\ AllRatiosZero
          /\ ExpandedToZero(stage1_df, 1, {100, 204}, {10, 11},
                            <<"ds_canal_aquisicao", "ds_segmento">>)
    /\ ( /\ pc = "stage2"
         /\ FilterByPeriodAndCriteria(df_metricas, "dt_referencia", {10, 11},
                [ds_metrica |-> {"metrica_2"}]) # <<>>
         /\ TotalMetricValue(allocation_ratios) = 0 )
       => /\ AllRatiosZero
          /\ ExpandedToZero(stage2_df, 2, {268, 288}, {10, 11}, <<"ds_segmento">>)

\* stage 1 has run on an eligible entry with two groups whose non-zero weights
\* total 0
C11_Witness ==
    /\ pc = "stage1"
    /\ Len(allocation_ratios) = 2
    /\ allocation_ratios[1]["total"] # 0
    /\ TotalMetricValue(allocation_ratios) = 0
    /\ Eligible({100, 204}, {10, 11}) # {}

====
